---------------------------- MODULE Spec2Model ----------------------------
(***************************************************************************)
(* The Huffman compressor (src/exp_huffman/src/main.rs, program            *)
(* "exp_huffman") and the code-table demo (src/huffman/src/main.rs,        *)
(* program "huffman").  Names are the compressor's; the demo's Node        *)
(* {symbol, freq, left, right} is held in the same record as the           *)
(* compressor's HuffmanNode {character, frequency, left, right}, and its   *)
(* BinaryHeap<Reverse<Node>> orders by freq just as the compressor's       *)
(* reversed Ord orders by frequency.                                       *)
(*                                                                         *)
(* Characters are modelled by their code points (97 = 'a', 58 = ':',       *)
(* 124 = '|', 10 = '\n', 32 = ' ', 48..57 = '0'..'9'); all symbols used    *)
(* are ASCII, so a character's UTF-8 encoding is the single byte of the    *)
(* same value.  Bits are 0 (false) and 1 (true).  An Option<T> is a        *)
(* sequence of length at most one: <<>> is None and <<x>> is Some(x).      *)
(***************************************************************************)
EXTENDS Integers, Sequences, FiniteSets, TLC

VARIABLES program, mode, pc, panic, text, freq_table, heap, huffman_tree,
          encoding_table, encoded, file, parsed_table, decoded

vars == <<program, mode, pc, panic, text, freq_table, heap, huffman_tree,
          encoding_table, encoded, file, parsed_table, decoded>>

\* ------------------------------------------------------------------ bounds

\* Longest input text of the file pipeline.
MaxLen == 4

\* Largest occurrence count of one symbol in the tree-building inputs.
MaxCount == 4

\* Longest arbitrary bit sequence handed to the decoder.
MaxBits == 4

\* Most entries, and largest count, of a serialized frequency table.
MaxHeaderEntries == 2

MaxHeaderCount == 12

\* Alphabet of the file pipeline: 'a', 'b', 'c'.
Alphabet == {97, 98, 99}

\* Symbols of the tree-building inputs, in run order: 'a', 'b', 'c', 'd'.
TreeSymbols == <<97, 98, 99, 100>>

\* Symbols of serialized tables: 'a', ':', '|', ' ', '\n', '1'.
HeaderAlphabet == {97, 58, 124, 32, 10, 49}

\* ----------------------------------------------------------------- options

None == <<>>

Some(x) == <<x>>

is_some(o) == o # <<>>

unwrap(o) == o[1]

\* ------------------------------------------------------------------- nodes

\* HuffmanNode { frequency, character: Some(c), left: None, right: None }
Leaf(c, freq) ==
    [frequency |-> freq, character |-> Some(c), left |-> None, right |-> None]

\* Combine with the slip of taking the left child's frequency alone.
CombineLeftOnly(l, r) ==
    [frequency |-> l.frequency, character |-> None,
     left |-> Some(l), right |-> Some(r)]

\* HuffmanNode { frequency: left.frequency + right.frequency,
\*               character: None, left: Some(left), right: Some(right) }
Combine(l, r) ==
    [frequency |-> l.frequency + r.frequency, character |-> None,
     left |-> Some(l), right |-> Some(r)]

\* node_le with the comparison not reversed (self.frequency.cmp(&other
\* .frequency)): the heap then yields the greatest frequency first.
node_le_unreversed(x, y) == x.frequency <= y.frequency

\* x <= y under `impl Ord for HuffmanNode`: cmp(x, y) = y.frequency.cmp(x.frequency),
\* so x <= y exactly when y.frequency <= x.frequency (a min-heap on frequency).

node_le(x, y) == y.frequency <= x.frequency

\* ------------------------------------------------- std BinaryHeap (a Vec)
\* push and pop as alloc::collections::BinaryHeap implements them, which is
\* what settles the order of nodes of equal frequency.  Positions are
\* 0-based as in the library; data[p + 1] is the element at p.

\* The loop of BinaryHeap::sift_up with `elt` held out of the hole at `pos`.
RECURSIVE sift_up_from(_, _, _, _)
sift_up_from(data, elt, start, pos) ==
    IF pos > start
    THEN LET parent == (pos - 1) \div 2 IN
         IF node_le(elt, data[parent + 1])
         THEN [data EXCEPT ![pos + 1] = elt]
         ELSE sift_up_from([data EXCEPT ![pos + 1] = data[parent + 1]],
                           elt, start, parent)
    ELSE [data EXCEPT ![pos + 1] = elt]

sift_up(data, start, pos) == sift_up_from(data, data[pos + 1], start, pos)

\* The loop of BinaryHeap::sift_down_to_bottom: the hole moves down to a
\* leaf position, always towards the greater child (the right one on a tie).
RECURSIVE sift_down_hole(_, _, _)
sift_down_hole(data, pos, end) ==
    LET child == 2 * pos + 1 IN
    IF child + 2 <= end
    THEN LET c == IF node_le(data[child + 1], data[child + 2])
                  THEN child + 1 ELSE child IN
         sift_down_hole([data EXCEPT ![pos + 1] = data[c + 1]], c, end)
    ELSE IF child = end - 1
         THEN [data |-> [data EXCEPT ![pos + 1] = data[child + 1]], pos |-> child]
         ELSE [data |-> data, pos |-> pos]

sift_down_to_bottom(data, pos) ==
    LET h == sift_down_hole(data, pos, Len(data)) IN
    sift_up_from(h.data, data[pos + 1], pos, h.pos)

\* heap.push(item)
heap_push(data, item) == sift_up(Append(data, item), 0, Len(data))

\* heap.pop(): the popped Option and the heap left behind.
heap_pop(data) ==
    IF data = <<>>
    THEN [item |-> None, data |-> data]
    ELSE LET last == data[Len(data)]
             rest == SubSeq(data, 1, Len(data) - 1) IN
         IF rest = <<>>
         THEN [item |-> Some(last), data |-> rest]
         ELSE [item |-> Some(rest[1]),
               data |-> sift_down_to_bottom([rest EXCEPT ![1] = last], 0)]


\* -------------------------------------------------------- frequency table

\* *freq_table.entry(c).or_insert(0) += 1, for one character.
count_char(table, c) ==
    IF c \in DOMAIN table
    THEN [table EXCEPT ![c] = table[c] + 1]
    ELSE (c :> 1) @@ table

\* The HashMap after `for c in text.chars()`, from character k on.
RECURSIVE count_chars(_, _, _)
count_chars(t, k, table) ==
    IF k > Len(t) THEN table ELSE count_chars(t, k + 1, count_char(table, t[k]))

EmptyMap == [c \in {} |-> 0]

\* The entries of the HashMap that build_frequency_table collects.
table_entries(t) ==
    LET table == count_chars(t, 1, EmptyMap) IN
    {<<c, table[c]>> : c \in DOMAIN table}

\* Every order in which the entries of a set can be laid out in a Vec.
Orderings(S) ==
    {s \in [1 .. Cardinality(S) -> S] : \A a, b \in DOMAIN s : a # b => s[a] # s[b]}

\* build_frequency_table: freq_table.into_iter().collect() yields the entries
\* in the HashMap's iteration order, which its random hasher state decides.
build_frequency_table(t) == Orderings(table_entries(t))

\* ------------------------------------------------------------ tree builder

\* for &(c, freq) in freq_table { heap.push(leaf) }, from entry k on.
RECURSIVE push_all(_, _, _)
push_all(ft, k, data) ==
    IF k > Len(ft) THEN data
    ELSE push_all(ft, k + 1, heap_push(data, Leaf(ft[k][1], ft[k][2])))

\* One pass of the body of `while heap.len() > 1`.
merge_step(data) ==
    LET first == heap_pop(data)
        second == heap_pop(first.data) IN
    heap_push(second.data, Combine(unwrap(first.item), unwrap(second.item)))

RECURSIVE merge_all(_)
merge_all(data) == IF Len(data) > 1 THEN merge_all(merge_step(data)) ELSE data

\* build_huffman_tree as a function of the table: the Option that
\* heap.pop() yields at the end (None makes the final unwrap() panic).
build_huffman_tree(ft) == heap_pop(merge_all(push_all(ft, 1, <<>>))).item

\* ------------------------------------------------------------- code table

\* traverse with the push(true) before the right descent left out.
RECURSIVE traverse_no_right_bit(_, _)
traverse_no_right_bit(node, current_code) ==
    IF is_some(node.character)
    THEN unwrap(node.character) :> current_code
    ELSE LET l == IF is_some(node.left)
                  THEN traverse_no_right_bit(unwrap(node.left), Append(current_code, 0))
                  ELSE EmptyMap
             r == IF is_some(node.right)
                  THEN traverse_no_right_bit(unwrap(node.right), current_code)
                  ELSE EmptyMap IN
         r @@ l

\* build_encoding_table::traverse; table.insert overwrites, so an entry
\* made later (the right subtree's) wins over an earlier one.
RECURSIVE traverse(_, _)
traverse(node, current_code) ==
    IF is_some(node.character)
    THEN unwrap(node.character) :> current_code
    ELSE LET l == IF is_some(node.left)
                  THEN traverse(unwrap(node.left), Append(current_code, 0))
                  ELSE EmptyMap
             r == IF is_some(node.right)
                  THEN traverse(unwrap(node.right), Append(current_code, 1))
                  ELSE EmptyMap IN
         r @@ l

build_encoding_table(root) == traverse(root, <<>>)

\* The demo's printTree: the lines it prints, as symbol -> printed code.
\* A leaf is a node without children; `symbol` is an Option<char>.
RECURSIVE printTree(_, _)
printTree(pot_node, encoding) ==
    IF is_some(pot_node)
    THEN LET node == unwrap(pot_node) IN
         IF node.left = None /\ node.right = None
         THEN node.character :> encoding
         ELSE printTree(node.right, Append(encoding, 1))
                 @@ printTree(node.left, Append(encoding, 0))
    ELSE EmptyMap

\* ------------------------------------------------------- encoder, decoder

\* encode_text: the concatenation of the codes; encoding_table.get(&c)
\* .unwrap() panics on a character without a code.
RECURSIVE encode_from(_, _, _, _)
encode_from(t, k, table, bits) ==
    IF k > Len(t) THEN [panicked |-> FALSE, bits |-> bits]
    ELSE IF t[k] \notin DOMAIN table THEN [panicked |-> TRUE, bits |-> bits]
    ELSE encode_from(t, k + 1, table, bits \o table[t[k]])

encode_text(t, table) == encode_from(t, 1, table, <<>>)

\* decode_text's loop from bit k on: right on 1, left on 0, unwrap() of a
\* missing child panics; a node with a character is pushed and the walk
\* restarts at the root.
RECURSIVE decode_from(_, _, _, _, _)
decode_from(bits, k, root, current_node, out) ==
    IF k > Len(bits) THEN [panicked |-> FALSE, decoded |-> out]
    ELSE LET child == IF bits[k] = 1 THEN current_node.right ELSE current_node.left IN
         IF child = None THEN [panicked |-> TRUE, decoded |-> out]
         ELSE LET n == unwrap(child) IN
              IF is_some(n.character)
              THEN decode_from(bits, k + 1, root, root, Append(out, unwrap(n.character)))
              ELSE decode_from(bits, k + 1, root, n, out)

decode_text(bits, root) == decode_from(bits, 1, root, root, <<>>)

\* ------------------------------------------------------------ file format

\* Display of a usize ("{}"): its decimal digits.
RECURSIVE format_usize(_)
format_usize(n) ==
    IF n < 10 THEN <<48 + n>> ELSE Append(format_usize(n \div 10), 48 + (n % 10))

\* write!(file, "{}:{}|", c, freq) for every entry from k on, then writeln!.
RECURSIVE write_header(_, _)
write_header(ft, k) ==
    IF k > Len(ft) THEN <<10>>
    ELSE <<ft[k][1], 58>> \o format_usize(ft[k][2]) \o <<124>> \o write_header(ft, k + 1)

\* Bit j (0-based) of the byte that holds bits[from .. from + 7]: BitVec<u8>
\* is BitVec<u8, Lsb0>, and the bits past the end of the vector are zero.
bit_at(bits, k) == IF k <= Len(bits) THEN bits[k] ELSE 0

pack_byte(bits, from) ==
    bit_at(bits, from) + 2 * bit_at(bits, from + 1) + 4 * bit_at(bits, from + 2)
    + 8 * bit_at(bits, from + 3) + 16 * bit_at(bits, from + 4)
    + 32 * bit_at(bits, from + 5) + 64 * bit_at(bits, from + 6)
    + 128 * bit_at(bits, from + 7)

\* encoded.into_vec(): ceil(len / 8) bytes.
into_vec(bits) ==
    [b \in 1 .. ((Len(bits) + 7) \div 8) |-> pack_byte(bits, 8 * (b - 1) + 1)]

RECURSIVE pow2(_)
pow2(j) == IF j = 0 THEN 1 ELSE 2 * pow2(j - 1)

\* BitVec::from_slice(&encoded_data): 8 bits per byte, least significant first.
from_slice(bytes) ==
    [k \in 1 .. 8 * Len(bytes) |->
        (bytes[((k - 1) \div 8) + 1] \div pow2((k - 1) % 8)) % 2]

\* Index of the first occurrence of x in s at or after k, 0 when there is none.
RECURSIVE find(_, _, _)
find(s, x, k) ==
    IF k > Len(s) THEN 0 ELSE IF s[k] = x THEN k ELSE find(s, x, k + 1)

\* read_line: the bytes up to and including the first '\n' (all of them
\* when there is none); read_to_end then yields the rest.
read_line(f) ==
    LET nl == find(f, 10, 1)
        cut == IF nl = 0 THEN Len(f) ELSE nl IN
    [line |-> SubSeq(f, 1, cut), rest |-> SubSeq(f, cut + 1, Len(f))]

\* The ASCII characters with the White_Space property, which str::trim strips.
WhiteSpace == {9, 10, 11, 12, 13, 32}

RECURSIVE trim_start(_)
trim_start(s) ==
    IF s # <<>> /\ s[1] \in WhiteSpace THEN trim_start(Tail(s)) ELSE s

RECURSIVE trim_end(_)
trim_end(s) ==
    IF s # <<>> /\ s[Len(s)] \in WhiteSpace
    THEN trim_end(SubSeq(s, 1, Len(s) - 1)) ELSE s

trim(s) == trim_end(trim_start(s))

\* s.split('|'): the pieces between the delimiters, empty ones included.
RECURSIVE split(_, _)
split(s, delim) ==
    LET at == find(s, delim, 1) IN
    IF at = 0 THEN <<s>>
    ELSE <<SubSeq(s, 1, at - 1)>> \o split(SubSeq(s, at + 1, Len(s)), delim)

\* s.splitn(2, ':'): one piece without a ':', else the text before the
\* first ':' and everything after it.
splitn2(s, delim) ==
    LET at == find(s, delim, 1) IN
    IF at = 0 THEN <<s>>
    ELSE <<SubSeq(s, 1, at - 1), SubSeq(s, at + 1, Len(s))>>

Digits == 48 .. 57

RECURSIVE digits_value(_, _)
digits_value(s, acc) ==
    IF s = <<>> THEN acc ELSE digits_value(Tail(s), 10 * acc + (s[1] - 48))

\* str::parse::<usize>: an optional '+', then one or more decimal digits;
\* anything else is an Err (None here).
parse_usize(s) ==
    LET body == IF s # <<>> /\ s[1] = 43 THEN Tail(s) ELSE s IN
    IF body # <<>> /\ \A k \in DOMAIN body : body[k] \in Digits
    THEN Some(digits_value(body, 0))
    ELSE None

\* The closure of decompress_file's .map(): None where one of its unwrap()s
\* panics, else Some(<<c, freq>>).
parse_entry(s) ==
    LET parts == splitn2(s, 58) IN
    IF parts[1] = <<>> THEN None
    ELSE IF Len(parts) < 2 THEN None
    ELSE LET freq == parse_usize(parts[2]) IN
         IF freq = None THEN None ELSE Some(<<parts[1][1], unwrap(freq)>>)

\* freq_table_part.trim().split('|').filter(|s| !s.is_empty()).map(..).collect():
\* None when an entry panics, else Some(the parsed Vec).
parse_header(line) ==
    LET pieces == SelectSeq(split(trim(line), 124), LAMBDA s : s # <<>>)
        parsed == [k \in DOMAIN pieces |-> parse_entry(pieces[k])] IN
    IF \E k \in DOMAIN parsed : parsed[k] = None
    THEN None
    ELSE Some([k \in DOMAIN parsed |-> unwrap(parsed[k])])

\* ------------------------------------------------------------------ inputs

\* Every text of at most MaxLen characters over Alphabet.
Texts == UNION {[1 .. n -> Alphabet] : n \in 0 .. MaxLen}

\* The text made of counts[k] copies of TreeSymbols[k], for k = from, ...
RECURSIVE RunText(_, _)
RunText(counts, from) ==
    IF from > Len(TreeSymbols) THEN <<>>
    ELSE [j \in 1 .. counts[from] |-> TreeSymbols[from]] \o RunText(counts, from + 1)

\* Texts in which every symbol of TreeSymbols occurs 0 .. MaxCount times.
RunTexts == {RunText(counts, 1) : counts \in [DOMAIN TreeSymbols -> 0 .. MaxCount]}

\* The demo's main: chars = ['a' .. 'f'], freq = [5., 9., 12., 13., 16., 45.]
\* (whole numbers, so the f64 sums and comparisons are exact).
DemoTable == <<<<97, 5>>, <<98, 9>>, <<99, 12>>, <<100, 13>>, <<101, 16>>, <<102, 45>>>>

\* "abracadabra", with 114 = 'r': a:5, b:2, r:2, c:1, d:1.
Abracadabra == <<97, 98, 114, 97, 99, 97, 100, 97, 98, 114, 97>>

\* Every bit sequence of at most MaxBits bits.
BitSeqs == UNION {[1 .. n -> {0, 1}] : n \in 0 .. MaxBits}

\* Frequency tables of at most MaxHeaderEntries entries over HeaderAlphabet.
HeaderTables ==
    {ft \in UNION {[1 .. n -> HeaderAlphabet \X (1 .. MaxHeaderCount)] :
                      n \in 0 .. MaxHeaderEntries} :
        \A a, b \in DOMAIN ft : a # b => ft[a][1] # ft[b][1]}

\* ------------------------------------------------------------------- state

\* The state of a process that has just read its input text.
Fresh(prog, t) ==
    /\ program = prog
    /\ mode = "compress"
    /\ pc = "start"
    /\ panic = "none"
    /\ text = t
    /\ freq_table = <<>>
    /\ heap = <<>>
    /\ huffman_tree = None
    /\ encoding_table = EmptyMap
    /\ encoded = <<>>
    /\ file = <<>>
    /\ parsed_table = <<>>
    /\ decoded = <<>>

\* compress_file on every text of the bounded alphabet.
Init == \E t \in Texts : Fresh("exp_huffman", t)

\* The table of the function that is running: compress_file's freq_table
\* or the one decompress_file parsed.
CurrentTable == IF mode = "compress" THEN freq_table ELSE parsed_table

Panic(site) ==
    /\ pc' = "panicked"
    /\ panic' = site

\* let freq_table = build_frequency_table(&text);
BuildFrequencyTable ==
    /\ pc = "start"
    /\ program = "exp_huffman"
    /\ freq_table' \in build_frequency_table(text)
    /\ pc' = "push"
    /\ UNCHANGED <<program, mode, panic, text, heap, huffman_tree,
                   encoding_table, encoded, file, parsed_table, decoded>>

\* The demo's main starts from its two arrays, pushed in index order.
LoadDemoTable ==
    /\ pc = "start"
    /\ program = "huffman"
    /\ freq_table' = DemoTable
    /\ pc' = "push"
    /\ UNCHANGED <<program, mode, panic, text, heap, huffman_tree,
                   encoding_table, encoded, file, parsed_table, decoded>>

\* One iteration of `for &(c, freq) in freq_table { heap.push(..) }`.
HeapPush ==
    /\ pc = "push"
    /\ Len(heap) < Len(CurrentTable)
    /\ LET e == CurrentTable[Len(heap) + 1] IN
       heap' = heap_push(heap, Leaf(e[1], e[2]))
    /\ UNCHANGED <<program, mode, pc, panic, text, freq_table, huffman_tree,
                   encoding_table, encoded, file, parsed_table, decoded>>

\* The push loop is over, or a merge has been made: control is at the
\* test of `while heap.len() > 1`.
AtWhile == IF pc = "push" THEN Len(heap) = Len(CurrentTable) ELSE pc = "merge"

\* One iteration of `while heap.len() > 1`.
MergeStep ==
    /\ AtWhile
    /\ Len(heap) > 1
    /\ heap' = merge_step(heap)
    /\ pc' = "merge"
    /\ UNCHANGED <<program, mode, panic, text, freq_table, huffman_tree,
                   encoding_table, encoded, file, parsed_table, decoded>>

\* heap.pop().unwrap(): the root, or a panic on an empty heap (the demo's
\* `if let Some(..) = nodes.pop()` cannot fail, its heap holds one node).
PopRoot ==
    /\ AtWhile
    /\ Len(heap) <= 1
    /\ LET r == heap_pop(heap) IN
       IF r.item = None
       THEN /\ Panic("build_huffman_tree")
            /\ UNCHANGED <<heap, huffman_tree>>
       ELSE /\ huffman_tree' = r.item
            /\ heap' = r.data
            /\ pc' = "tree"
            /\ UNCHANGED panic
    /\ UNCHANGED <<program, mode, text, freq_table,
                   encoding_table, encoded, file, parsed_table, decoded>>

\* let encoding_table = build_encoding_table(&huffman_tree);
BuildEncodingTable ==
    /\ pc = "tree"
    /\ program = "exp_huffman"
    /\ mode = "compress"
    /\ encoding_table' = build_encoding_table(unwrap(huffman_tree))
    /\ pc' = "table"
    /\ UNCHANGED <<program, mode, panic, text, freq_table, heap, huffman_tree,
                   encoded, file, parsed_table, decoded>>

\* The demo: printTree(Some(Box::new(node)), vec![])
PrintTree ==
    /\ pc = "tree"
    /\ program = "huffman"
    /\ encoding_table' = printTree(huffman_tree, <<>>)
    /\ pc' = "printed"
    /\ UNCHANGED <<program, mode, panic, text, freq_table, heap, huffman_tree,
                   encoded, file, parsed_table, decoded>>

\* let encoded = encode_text(&text, &encoding_table);
EncodeText ==
    /\ pc = "table"
    /\ LET r == encode_text(text, encoding_table) IN
       IF r.panicked
       THEN /\ Panic("encode_text")
            /\ UNCHANGED encoded
       ELSE /\ encoded' = r.bits
            /\ pc' = "encoded"
            /\ UNCHANGED panic
    /\ UNCHANGED <<program, mode, text, freq_table, heap, huffman_tree,
                   encoding_table, file, parsed_table, decoded>>

\* The header line, then file.write_all(&encoded.into_vec()); compress_file
\* returns.
WriteFile ==
    /\ pc = "encoded"
    /\ file' = write_header(freq_table, 1) \o into_vec(encoded)
    /\ pc' = "written"
    /\ UNCHANGED <<program, mode, panic, text, freq_table, heap, huffman_tree,
                   encoding_table, encoded, parsed_table, decoded>>

\* decompress_file up to BitVec::from_slice: the header line is read and
\* parsed, the remaining bytes become the bits to decode.
ReadHeader ==
    /\ pc = "written"
    /\ LET r == read_line(file)
           parsed == parse_header(r.line) IN
       IF parsed = None
       THEN /\ Panic("parse_header")
            /\ UNCHANGED <<mode, parsed_table, encoded, heap, huffman_tree>>
       ELSE /\ parsed_table' = unwrap(parsed)
            /\ encoded' = from_slice(r.rest)
            /\ mode' = "decompress"
            /\ heap' = <<>>
            /\ huffman_tree' = None
            /\ pc' = "push"
            /\ UNCHANGED panic
    /\ UNCHANGED <<program, text, freq_table, encoding_table, file, decoded>>

\* let decoded = decode_text(&encoded, &huffman_tree); write(output_path, decoded)
DecodeText ==
    /\ pc = "tree"
    /\ mode = "decompress"
    /\ LET r == decode_text(encoded, unwrap(huffman_tree)) IN
       IF r.panicked
       THEN /\ Panic("decode_text")
            /\ UNCHANGED decoded
       ELSE /\ decoded' = r.decoded
            /\ pc' = "done"
            /\ UNCHANGED panic
    /\ UNCHANGED <<program, mode, text, freq_table, heap, huffman_tree,
                   encoding_table, encoded, file, parsed_table>>

\* compress_file followed by decompress_file of the file it wrote.
Next ==
    \/ BuildFrequencyTable
    \/ HeapPush
    \/ MergeStep
    \/ PopRoot
    \/ BuildEncodingTable
    \/ EncodeText
    \/ WriteFile
    \/ ReadHeader
    \/ DecodeText

Spec == Init /\ [][Next]_vars

\* ------------------------------------------- tree building on richer tables

\* The tree and its codes for texts with up to MaxCount copies of each of
\* TreeSymbols and for "abracadabra" (the compressor), and for the demo's
\* fixed table.
InitTree ==
    \/ \E t \in RunTexts : Fresh("exp_huffman", t)
    \/ Fresh("exp_huffman", Abracadabra)
    \/ Fresh("huffman", <<>>)

NextTree ==
    \/ BuildFrequencyTable
    \/ LoadDemoTable
    \/ HeapPush
    \/ MergeStep
    \/ PopRoot
    \/ BuildEncodingTable
    \/ PrintTree

SpecTree == InitTree /\ [][NextTree]_vars

\* ------------------------------------------- decoding arbitrary bit streams

\* decode_text on the tree of a text and any bit sequence of at most
\* MaxBits bits (a payload that was truncated or damaged).
DecodeBits ==
    /\ pc = "tree"
    /\ \E bits \in BitSeqs :
          /\ encoded' = bits
          /\ LET r == decode_text(bits, unwrap(huffman_tree)) IN
             IF r.panicked
             THEN /\ Panic("decode_text")
                  /\ UNCHANGED decoded
             ELSE /\ decoded' = r.decoded
                  /\ pc' = "done"
                  /\ UNCHANGED panic
    /\ UNCHANGED <<program, mode, text, freq_table, heap, huffman_tree,
                   encoding_table, file, parsed_table>>

NextDecode ==
    \/ BuildFrequencyTable
    \/ HeapPush
    \/ MergeStep
    \/ PopRoot
    \/ DecodeBits

SpecDecode == Init /\ [][NextDecode]_vars

\* ------------------------------------------------ the header line by itself

\* compress_file about to write a frequency table over HeaderAlphabet; the
\* payload is left empty, the header line does not depend on it.
InitHeader ==
    \E ft \in HeaderTables :
        /\ program = "exp_huffman"
        /\ mode = "compress"
        /\ pc = "encoded"
        /\ panic = "none"
        /\ text = <<>>
        /\ freq_table = ft
        /\ heap = <<>>
        /\ huffman_tree = None
        /\ encoding_table = EmptyMap
        /\ encoded = <<>>
        /\ file = <<>>
        /\ parsed_table = <<>>
        /\ decoded = <<>>

NextHeader ==
    \/ WriteFile
    \/ ReadHeader

SpecHeader == InitHeader /\ [][NextHeader]_vars

\* ---------------------------------------------------------------- properties

IsPrefix(a, b) == Len(a) <= Len(b) /\ SubSeq(b, 1, Len(a)) = a

Range(f) == {f[k] : k \in DOMAIN f}

\* The symbols of the running table, as build_encoding_table keys them
\* (char) or as printTree prints them (Option<char>).
TableKeys ==
    IF program = "exp_huffman"
    THEN {e[1] : e \in Range(freq_table)}
    ELSE {Some(e[1]) : e \in Range(freq_table)}

KeyCount(key) ==
    LET c == IF program = "exp_huffman" THEN key ELSE unwrap(key) IN
    (CHOOSE e \in Range(freq_table) : e[1] = c)[2]

RECURSIVE SumCounts(_, _)
SumCounts(ft, k) == IF k > Len(ft) THEN 0 ELSE ft[k][2] + SumCounts(ft, k + 1)

RECURSIVE SumFrequencies(_, _)
SumFrequencies(data, k) ==
    IF k > Len(data) THEN 0 ELSE data[k].frequency + SumFrequencies(data, k + 1)

IsLeaf(node) == node.left = None /\ node.right = None

\* Every internal node below (and including) `node` has two children and
\* their frequencies' sum as its frequency.
RECURSIVE WeightsAddUp(_)
WeightsAddUp(node) ==
    IF IsLeaf(node) THEN TRUE
    ELSE /\ is_some(node.left)
         /\ is_some(node.right)
         /\ node.frequency = unwrap(node.left).frequency + unwrap(node.right).frequency
         /\ WeightsAddUp(unwrap(node.left))
         /\ WeightsAddUp(unwrap(node.right))

RECURSIVE LeafSum(_)
LeafSum(node) ==
    IF IsLeaf(node) THEN node.frequency
    ELSE LeafSum(unwrap(node.left)) + LeafSum(unwrap(node.right))

DistinctSymbols(t) == Cardinality(Range(t))

TableBuilt == pc \in {"table", "printed"}

\* C1. Round trip of the coder: once the text is encoded with the table of
\* its own tree, decode_text of those bits with that tree gives the text.
C1_RoundTrip ==
    pc = "encoded" =>
        LET r == decode_text(encoded, unwrap(huffman_tree)) IN
        ~r.panicked /\ r.decoded = text

\* Supporting fact for C1: the round trip holds for every text with at
\* least two distinct symbols.
RoundTripTwoSymbols ==
    (pc = "encoded" /\ DistinctSymbols(text) >= 2) =>
        LET r == decode_text(encoded, unwrap(huffman_tree)) IN
        ~r.panicked /\ r.decoded = text

\* C2. File-level exactness with padding: when decompress_file has decoded
\* the file compress_file wrote for a text, its output is that text; the
\* zero bits that pad the last byte add no symbols.  Stated for the texts
\* with two or more distinct symbols, the ones whose payload is not empty.
C2_FileExactness ==
    (pc = "done" /\ DistinctSymbols(text) >= 2) => decoded = text

\* C3. Prefix freedom: the code table has exactly the symbols of the
\* frequency table as its keys, one code each, and no code is a prefix of
\* the code of another symbol.
C3_PrefixFree ==
    TableBuilt =>
        /\ DOMAIN encoding_table = TableKeys
        /\ \A x, y \in DOMAIN encoding_table :
              x # y => ~IsPrefix(encoding_table[x], encoding_table[y])

C3_Witness ==
    /\ pc = "table"
    /\ Cardinality(DOMAIN encoding_table) >= 3
    /\ \E x, y \in DOMAIN encoding_table :
          Len(encoding_table[x]) < Len(encoding_table[y])

\* C4. Weight conservation: in every state of the build, each node in the
\* heap has internal nodes whose frequency is the sum of their children's;
\* from the end of the push loop on, the frequencies in the heap add up to
\* the table's total; the final root's frequency is the sum of its leaves'
\* frequencies, the table's total and the length of the input text.
C4_WeightConservation ==
    /\ \A k \in DOMAIN heap : WeightsAddUp(heap[k])
    /\ (pc \in {"push", "merge"} /\ AtWhile) =>
          SumFrequencies(heap, 1) = SumCounts(freq_table, 1)
    /\ is_some(huffman_tree) =>
          LET root == unwrap(huffman_tree) IN
          /\ WeightsAddUp(root)
          /\ root.frequency = LeafSum(root)
          /\ root.frequency = SumCounts(freq_table, 1)
          /\ program = "exp_huffman" => root.frequency = Len(text)

C4_Witness ==
    /\ pc = "merge"
    /\ Len(freq_table) = 4
    /\ Len(heap) = 2
    /\ \E k \in DOMAIN heap : ~IsLeaf(heap[k]) /\ heap[k].frequency >= 4

\* C5. Single-symbol alphabet: for a text that repeats one symbol, the tree
\* is a single leaf, the symbol's code is the empty bit sequence, and
\* decoding the encoded text gives the symbol back once per occurrence.
C5_SingleSymbol ==
    (pc = "encoded" /\ DistinctSymbols(text) = 1) =>
        /\ IsLeaf(unwrap(huffman_tree))
        /\ encoding_table[text[1]] = <<>>
        /\ decode_text(encoded, unwrap(huffman_tree)).decoded = text

\* C6. Empty input: for the empty text no build of the tree fails on an
\* empty frequency table, and what decompress_file outputs is empty.
C6_EmptyInput ==
    text = <<>> =>
        /\ panic # "build_huffman_tree"
        /\ pc = "done" => decoded = <<>>

\* C7. Header round trip: the header line compress_file writes for a
\* frequency table is parsed by decompress_file, without failure, into the
\* same symbol-to-count mapping, whatever the order of the entries.
C7_HeaderRoundTrip ==
    /\ panic # "parse_header"
    /\ mode = "decompress" =>
          /\ Range(parsed_table) = Range(freq_table)
          /\ Len(parsed_table) = Len(freq_table)

\* The length of every symbol's code in the table of a tree.
CodeLengths(root) ==
    LET table == build_encoding_table(root) IN
    [c \in DOMAIN table |-> Len(table[c])]

\* C8. Order independence: the tree built from the table in the order at
\* hand gives every symbol a code of the same length as the tree built
\* from the same entries in any other order.
C8_OrderIndependent ==
    (pc = "tree" /\ program = "exp_huffman") =>
        \A other \in Orderings(Range(freq_table)) :
            CodeLengths(unwrap(build_huffman_tree(other)))
                = CodeLengths(unwrap(huffman_tree))

\* C9. Truncated streams: decode_text fails on no bit sequence, and its
\* output is the symbols of the codes that the sequence starts with, the
\* bits left over being an incomplete code (a proper prefix of one).
C9_TruncationTolerated ==
    /\ panic # "decode_text"
    /\ pc = "done" =>
          LET table == build_encoding_table(unwrap(huffman_tree))
              bits == encode_text(decoded, table).bits
              rest == SubSeq(encoded, Len(bits) + 1, Len(encoded)) IN
          /\ IsPrefix(bits, encoded)
          /\ \/ rest = <<>>
             \/ \E c \in DOMAIN table : IsPrefix(rest, table[c]) /\ rest # table[c]

\* Supporting fact for C9: the statement holds for every tree with at
\* least two leaves.
TruncationToleratedTwoSymbols ==
    DistinctSymbols(text) >= 2 => C9_TruncationTolerated

\* C10. Frequency-monotone code lengths: a symbol with a larger count than
\* another has a code that is no longer.
C10_MonotoneLengths ==
    TableBuilt =>
        \A x, y \in DOMAIN encoding_table :
            KeyCount(x) > KeyCount(y) =>
                Len(encoding_table[x]) <= Len(encoding_table[y])

\* "abracadabra": 'a' (5) has a code shorter than every other symbol's,
\* and 'c' and 'd' (1 each) have codes of the greatest length.
C10_Witness ==
    /\ pc = "table"
    /\ text = Abracadabra
    /\ \A x \in DOMAIN encoding_table \ {97} :
          Len(encoding_table[97]) < Len(encoding_table[x])
    /\ \A x \in DOMAIN encoding_table :
          /\ Len(encoding_table[x]) <= Len(encoding_table[99])
          /\ Len(encoding_table[x]) <= Len(encoding_table[100])

=============================================================================
